---- MODULE Spec2Model ----
(***************************************************************************)
(* A model of the convention-table mining of FancyAnalyzer:                *)
(*   ScanF3PagesForConInfo.py  the per-row scan, the name-cell and the     *)
(*                             date-cell parsers, the slash splitter       *)
(*   Conventions.py            the Conventions registry, ConInstanceInfo,  *)
(*                             IndexTableNameEntry                         *)
(*                                                                         *)
(* A text is a sequence of atoms.  An atom is one character of markup      *)
(* ("[", "]", "|", "/", "<", ">", "(", ")", " ", ...) or one word that the *)
(* code never looks inside (a convention name such as "Westercon 73", a    *)
(* date range such as "D1", the tag name "s", the word "virtual").         *)
(***************************************************************************)
EXTENDS Integers, Sequences, FiniteSets, TLC

(***************************************************************************)
(* Text primitives (Python str operations and the regular expressions'     *)
(* building blocks).                                                       *)
(***************************************************************************)
NoText == << >>

\* p occurs in t at (1-based) position i
StartsAt(t, p, i) ==
    /\ i >= 1
    /\ i + Len(p) - 1 <= Len(t)
    /\ SubSeq(t, i, i + Len(p) - 1) = p

\* the least position >= i at which p occurs in t, 0 when there is none (str.find)
FindFrom(t, p, i) ==
    IF \E j \in i..Len(t) : StartsAt(t, p, j)
    THEN CHOOSE j \in i..Len(t) :
            /\ StartsAt(t, p, j)
            /\ \A k \in i..(j - 1) : ~StartsAt(t, p, k)
    ELSE 0

\* "p in t"
HasSub(t, p) == FindFrom(t, p, 1) # 0

\* t[i:] of Python, with i the 1-based position of the first atom kept
From(t, i) == SubSeq(t, i, Len(t))

RECURSIVE LStrip(_)
LStrip(t) == IF t # NoText /\ Head(t) = " " THEN LStrip(Tail(t)) ELSE t

RECURSIVE RStrip(_)
RStrip(t) ==
    IF t # NoText /\ t[Len(t)] = " " THEN RStrip(SubSeq(t, 1, Len(t) - 1)) ELSE t

\* str.strip()
Strip(t) == RStrip(LStrip(t))

\* str.replace(p, r): every non-overlapping occurrence, left to right
RECURSIVE ReplaceAll(_, _, _)
ReplaceAll(t, p, r) ==
    IF t = NoText THEN NoText
    ELSE IF StartsAt(t, p, 1) THEN r \o ReplaceAll(From(t, Len(p) + 1), p, r)
    ELSE <<Head(t)>> \o ReplaceAll(Tail(t), p, r)

\* str.count(a) for a single atom a
RECURSIVE CountAtom(_, _)
CountAtom(t, a) ==
    IF t = NoText THEN 0
    ELSE (IF Head(t) = a THEN 1 ELSE 0) + CountAtom(Tail(t), a)

(***************************************************************************)
(* HelpersPackage (an external package; its text is not part of the        *)
(* sources): modelled from the design's description of the cleaner and of  *)
(* the bracket scanner.                                                    *)
(***************************************************************************)
\* ConvertHTMLishCharacters: the HTML non-breaking space becomes a space
ConvertHTMLishCharacters(t) == ReplaceAll(t, <<"&nbsp;">>, <<" ">>)

\* CompressWhitespace: a run of spaces becomes one space
RECURSIVE CompressWhitespace(_)
CompressWhitespace(t) ==
    IF Len(t) < 2 THEN t
    ELSE IF t[1] = " " /\ t[2] = " " THEN CompressWhitespace(Tail(t))
    ELSE <<Head(t)>> \o CompressWhitespace(Tail(t))

OpenTag(tag) == <<"<", tag, ">">>
CloseTag(tag) == <<"<", "/", tag, ">">>

\* RemoveTopBracketedText(s, tag) -> (text, found): a <tag>...</tag> wrapper
\* around the whole text is removed
RemoveTopBracketedText(t, tag) ==
    LET u == Strip(t)
        o == OpenTag(tag)
        c == CloseTag(tag)
    IN  IF /\ Len(u) >= Len(o) + Len(c)
           /\ StartsAt(u, o, 1)
           /\ StartsAt(u, c, Len(u) - Len(c) + 1)
        THEN [text |-> SubSeq(u, Len(o) + 1, Len(u) - Len(c)), found |-> TRUE]
        ELSE [text |-> t, found |-> FALSE]

\* FindAnyBracketedText(s) -> (lead, tag, content, remainder): the first
\* <tag>...</tag> span, non-greedy; the whole text as lead when there is none.
\* The only tag name of the modelled texts is "s".
FindAnyBracketedText(t) ==
    LET o == OpenTag("s")
        c == CloseTag("s")
        i == FindFrom(t, o, 1)
        j == IF i = 0 THEN 0 ELSE FindFrom(t, c, i + Len(o))
    IN  IF i = 0 \/ j = 0
        THEN [lead |-> t, tag |-> NoText, content |-> NoText, remainder |-> NoText]
        ELSE [lead |-> SubSeq(t, 1, i - 1),
              tag |-> <<"s">>,
              content |-> SubSeq(t, i + Len(o), j - 1),
              remainder |-> From(t, j + Len(c))]

\* ScanForBracketedText(s, tag) -> (found, text): the content of the first
\* <tag>...</tag> span put in place of the span; the text unchanged when
\* there is none
ScanForBracketedText(t, tag) ==
    LET o == OpenTag(tag)
        c == CloseTag(tag)
        i == FindFrom(t, o, 1)
        j == IF i = 0 THEN 0 ELSE FindFrom(t, c, i + Len(o))
    IN  IF i = 0 \/ j = 0
        THEN [found |-> FALSE, text |-> t]
        ELSE [found |-> TRUE,
              text |-> SubSeq(t, 1, i - 1) \o SubSeq(t, i + Len(o), j - 1)
                          \o From(t, j + Len(c))]

(***************************************************************************)
(* SplitByTopLevelSlashes (ScanF3PagesForConInfo.py)                       *)
(***************************************************************************)
\* the depth counter after the first i atoms: +1 for "[", -1 for "]"
RECURSIVE BracketDepth(_, _)
BracketDepth(t, i) ==
    IF i = 0 THEN 0
    ELSE BracketDepth(t, i - 1)
            + (IF t[i] = "[" THEN 1 ELSE IF t[i] = "]" THEN -1 ELSE 0)

\* slash positions found without the depth counter
SlashLocs_Every(t) == {i \in 1..Len(t) : t[i] = "/"}

\* listofslashlocs without its leading -1: the positions of the "/" met at depth 0
SlashLocs(t) == {i \in 1..Len(t) : t[i] = "/" /\ BracketDepth(t, i - 1) = 0}

\* the pieces of t from position from on, cut at the positions in locs
RECURSIVE PiecesFrom(_, _, _)
PiecesFrom(t, from, locs) ==
    LET later == {i \in locs : i >= from}
    IN  IF later = {} THEN <<From(t, from)>>
        ELSE LET nxt == CHOOSE i \in later : \A k \in later : i <= k
             IN  <<SubSeq(t, from, nxt - 1)>> \o PiecesFrom(t, nxt + 1, locs)

SplitByTopLevelSlashes(t) == PiecesFrom(t, 1, SlashLocs(t))

(***************************************************************************)
(* ExtractConNameInfo (ScanF3PagesForConInfo.py): the name-cell parser     *)
(***************************************************************************)
\* re.sub("'{2,}", "", text): runs of two or more apostrophes are removed
RECURSIVE QuoteRun(_)
QuoteRun(t) == IF t # NoText /\ Head(t) = "'" THEN 1 + QuoteRun(Tail(t)) ELSE 0

RECURSIVE RemoveQuoteRuns(_)
RemoveQuoteRuns(t) ==
    IF t = NoText THEN NoText
    ELSE IF QuoteRun(t) >= 2 THEN RemoveQuoteRuns(From(t, QuoteRun(t) + 1))
    ELSE <<Head(t)>> \o RemoveQuoteRuns(Tail(t))

\* re.sub("{{([^}]*?)\|(.*?)}}", r"\2", text): {{name|arg}} becomes arg
RECURSIVE ExpandTemplates(_)
ExpandTemplates(t) ==
    IF t = NoText THEN NoText
    ELSE LET p == IF StartsAt(t, <<"{", "{">>, 1) THEN FindFrom(t, <<"|">>, 3) ELSE 0
             e == IF p = 0 THEN 0 ELSE FindFrom(t, <<"}", "}">>, p + 1)
         IN  IF p # 0 /\ e # 0 /\ CountAtom(SubSeq(t, 3, p - 1), "}") = 0
             THEN SubSeq(t, p + 1, e - 1) \o ExpandTemplates(From(t, e + 2))
             ELSE <<Head(t)>> \o ExpandTemplates(Tail(t))

VirtualWords == {"virtual", "online"}

\* re.search(r"\(?(virtual|online)\)?", text) is not None
HasVirtualWord(t) == \E i \in 1..Len(t) : t[i] \in VirtualWords

\* re.sub(r"\(?(virtual|online)\)?", "", text)
RECURSIVE RemoveVirtualWord(_)
RemoveVirtualWord(t) ==
    LET n == IF Len(t) >= 2 /\ t[1] = "(" /\ t[2] \in VirtualWords THEN 2
             ELSE IF t # NoText /\ t[1] \in VirtualWords THEN 1
             ELSE 0
        m == IF n > 0 /\ Len(t) > n /\ t[n + 1] = ")" THEN n + 1 ELSE n
    IN  IF t = NoText THEN NoText
        ELSE IF n > 0 THEN RemoveVirtualWord(From(t, m + 1))
        ELSE <<Head(t)>> \o RemoveVirtualWord(Tail(t))

\* the cleaning at the head of ExtractConNameInfo, up to the removal of the
\* virtual annotation
CleanNameText(nameText) ==
    LET t1 == ConvertHTMLishCharacters(nameText)
        t2 == Strip(ReplaceAll(t1, <<"<", "br", ">">>, <<" ">>))
        t3 == RemoveQuoteRuns(t2)
        t4 == IF HasSub(t3, <<"{", "{">>) THEN ExpandTemplates(t3) ELSE t3
    IN  t4

\* IndexTableSingleNameEntry (Conventions.py)
IndexTableSingleNameEntry(link, text, lead, remainder, cancelled, virtual) ==
    [Link |-> link, Text |-> text, Lead |-> lead, Remainder |-> remainder,
     Cancelled |-> cancelled, Virtual |-> virtual]

\* "if '|' in text2: link2, text2=text2.split('|')" for the interior of the
\* [[...]] span (link2 and text2 are both the interior when it has no "|");
\* raised when the split does not unpack into two values
SplitLinkText(inner) ==
    LET pipes == CountAtom(inner, "|")
        p == FindFrom(inner, <<"|">>, 1)
    IN  [raised |-> pipes > 1,
         link |-> IF pipes = 1 THEN SubSeq(inner, 1, p - 1) ELSE inner,
         text |-> IF pipes = 1 THEN From(inner, p + 1) ELSE inner]

\* an entry that keeps a link to a series page
MakeNameEntry_KeepsLink(lt, lead2, remainder2, c1, c2, virtual, conseries) ==
    [raised |-> lt.raised,
     entry |-> IndexTableSingleNameEntry(lt.link, lt.text, lead2, remainder2,
                                         c2 \/ c2, virtual /\ ~(c2 \/ c2))]

\* "Let's add this to the list": the entry appended for a piece whose group
\* has strikeout flag c1 and whose own strikeout flag is c2
MakeNameEntry(lt, lead2, remainder2, c1, c2, virtual, conseries) ==
    LET cancelled == c2 \/ c2
        v == virtual /\ ~cancelled
        link2 == IF lt.link \in conseries THEN NoText ELSE lt.link
    IN  [raised |-> lt.raised,
         entry |-> IndexTableSingleNameEntry(link2, lt.text, lead2, remainder2, cancelled, v)]

\* m=re.match(r"^(.*?)\[\[(.*?)\]\](.*)$", name2) and its two branches, with
\* i the position of the first "[[" and j that of the first "]]" after it
\* (0 when there is none)
ParseLinkSpan(name2, i, j, c1, c2, virtual, conseries) ==
    IF i # 0 /\ j # 0
    THEN MakeNameEntry(SplitLinkText(SubSeq(name2, i + 2, j - 1)),
                       SubSeq(name2, 1, i - 1), From(name2, j + 2),
                       c1, c2, virtual, conseries)
    ELSE MakeNameEntry(SplitLinkText(NoText), name2, NoText, c1, c2, virtual, conseries)

ParseLinkFrom(name2, i, c1, c2, virtual, conseries) ==
    ParseLinkSpan(name2, i, IF i = 0 THEN 0 ELSE FindFrom(name2, <<"]", "]">>, i + 2),
                  c1, c2, virtual, conseries)

\* the parse of "abc [[xxx|yyy]] def"
ParseName2(name2, c1, c2, virtual, conseries) ==
    ParseLinkFrom(name2, FindFrom(name2, <<"[", "[">>, 1), c1, c2, virtual, conseries)

\* name2=lead2+" "+content2+" "+remainder2
JoinBracketed(f) == f.lead \o <<" ">> \o f.content \o <<" ">> \o f.remainder

\* 'if "<s>" in name2', for r2 the result of RemoveTopBracketedText(name2, "s")
ParseStruckPiece(r2, c1, virtual, conseries) ==
    IF HasSub(r2.text, OpenTag("s"))
    THEN ParseName2(JoinBracketed(FindAnyBracketedText(r2.text)), c1, TRUE, virtual, conseries)
    ELSE ParseName2(r2.text, c1, r2.found, virtual, conseries)

\* the body of the inner loop of ExtractConNameInfo for one piece name2 of a
\* group whose strikeout flag is c1: the entry appended, or raised
ParseNamePiece(piece, c1, virtual, conseries) ==
    ParseStruckPiece(RemoveTopBracketedText(piece, "s"), c1, virtual, conseries)

\* the pieces of one top-level group name1, each with the group's strikeout flag
PiecesOfGroup(r1, names1) ==
    [k \in 1..Len(names1) |-> [piece |-> names1[k], c1 |-> r1.found]]

SplitGroup(r1) == PiecesOfGroup(r1, SplitByTopLevelSlashes(r1.text))

GroupPieces(name1) == SplitGroup(RemoveTopBracketedText(name1, "s"))

RECURSIVE AllPieces(_)
AllPieces(names) ==
    IF names = << >> THEN << >>
    ELSE GroupPieces(Head(names)) \o AllPieces(Tail(names))

\* the value returned once every piece is parsed, or raised (the exception
\* leaves the function at the first piece that raises)
EntryList(parsed, virtual) ==
    [raised |-> \E k \in 1..Len(parsed) : parsed[k].raised,
     virtual |-> virtual,
     entries |-> [k \in 1..Len(parsed) |-> parsed[k].entry]]

\* the two loops of ExtractConNameInfo over the pieces
ParsePieces(pieces, virtual, conseries) ==
    EntryList([k \in 1..Len(pieces) |->
                  ParseNamePiece(pieces[k].piece, pieces[k].c1, virtual, conseries)],
              virtual)

\* ExtractConNameInfo from the removal of the virtual annotation on
ParseCleaned(cleaned, virtual, conseries) ==
    ParsePieces(AllPieces(SplitByTopLevelSlashes(
                    IF virtual THEN RemoveVirtualWord(cleaned) ELSE cleaned)),
                virtual, conseries)

ParseNameText(cleaned, conseries) == ParseCleaned(cleaned, HasVirtualWord(cleaned), conseries)

\* ExtractConNameInfo(nameText, conseries)
ExtractConNameInfo(nameText, conseries) == ParseNameText(CleanNameText(nameText), conseries)

\* the text ExtractConNameInfo hands to SplitByTopLevelSlashes for a name cell
SplitInput(nameText) ==
    IF HasVirtualWord(CleanNameText(nameText))
    THEN RemoveVirtualWord(CleanNameText(nameText))
    ELSE CleanNameText(nameText)

(***************************************************************************)
(* IndexTableNameEntry.DisplayNameMarkup (Conventions.py).  The caller     *)
(* discards the markup string; what the property leaves behind is the      *)
(* entry list with the first non-empty Link moved to the first entry and   *)
(* every other Link emptied.                                               *)
(***************************************************************************)
DisplayNameMarkup(entries) ==
    LET linked == {k \in 1..Len(entries) : entries[k].Link # NoText}
    IN  IF linked = {} THEN entries
        ELSE LET first == CHOOSE k \in linked : \A m \in linked : k <= m
                 link == entries[first].Link
             IN  [k \in 1..Len(entries) |->
                     [entries[k] EXCEPT !.Link = IF k = 1 THEN link ELSE NoText]]

(***************************************************************************)
(* FanzineDateRange (FanzineIssueSpecPackage, an external package): a date *)
(* range text is one atom; Match recognises the atoms of KnownDates and    *)
(* returns the empty range for any other text.                             *)
(***************************************************************************)
NoDate == "none"
KnownDates == {"D1", "D2", "D3", "L1"}

\* FanzineDateRange().Match(s), with Cancelled as the caller then sets it
FanzineDateRangeMatch(t, cancelled) ==
    LET u == Strip(t)
    IN  [Date |-> IF Len(u) = 1 /\ u[1] \in KnownDates THEN u[1] ELSE NoDate,
         Cancelled |-> cancelled]

IsEmptyDate(dr) == dr.Date = NoDate

\* FanzineDateRange.Duration(), in days: "L1" is the one long range
Duration(dr) == IF dr.Date = "L1" THEN 10 ELSE IF dr.Date = NoDate THEN 0 ELSE 3

(***************************************************************************)
(* ExtractDateInfo (ScanF3PagesForConInfo.py): the date-cell parser        *)
(***************************************************************************)
LogEntry(tag, isError) == [tag |-> tag, isError |-> isError]

\* re.sub("\(.*\)\s?$", "", datetext): from the first "(" on, when the text
\* ends with ")" or with ")" and one space
StripTrailingParen(t) ==
    LET n == Len(t)
        e == IF n >= 1 /\ t[n] = ")" THEN n
             ELSE IF n >= 2 /\ t[n] = " " /\ t[n - 1] = ")" THEN n - 1
             ELSE 0
        i == FindFrom(t, <<"(">>, 1)
    IN  IF e # 0 /\ i # 0 /\ i < e THEN SubSeq(t, 1, i - 1) ELSE t

\* the end of the match of "<s>.+?</s>" that starts at position 1, 0 if none
StrikeEnd(t) ==
    LET j == IF StartsAt(t, OpenTag("s"), 1) THEN FindFrom(t, CloseTag("s"), 5) ELSE 0
    IN  IF j = 0 THEN 0 ELSE j + 3

\* re.findall("<s>.+?</s>", datetext)
RECURSIVE StrikeSpans(_)
StrikeSpans(t) ==
    IF t = NoText THEN << >>
    ELSE IF StrikeEnd(t) # 0
         THEN <<SubSeq(t, 1, StrikeEnd(t))>> \o StrikeSpans(From(t, StrikeEnd(t) + 1))
         ELSE StrikeSpans(Tail(t))

\* re.sub("<s>.+?</s>", "", datetext)
RECURSIVE RemoveStrikeSpans(_)
RemoveStrikeSpans(t) ==
    IF t = NoText THEN NoText
    ELSE IF StrikeEnd(t) # 0 THEN RemoveStrikeSpans(From(t, StrikeEnd(t) + 1))
         ELSE <<Head(t)>> \o RemoveStrikeSpans(Tail(t))

\* the longest duration the date parser accepts without a warning
MaxDuration == 7

\* a loop "for d in ds" that leaves out the long date ranges it reports
RECURSIVE ExamineDates_DropLong(_)
ExamineDates_DropLong(ds) ==
    IF ds = << >> THEN [dates |-> << >>, log |-> << >>]
    ELSE LET sc == ScanForBracketedText(Head(ds), "s")
             dr == FanzineDateRangeMatch(sc.text, sc.found)
             rest == ExamineDates_DropLong(Tail(ds))
         IN  [dates |-> (IF ~IsEmptyDate(dr) /\ Duration(dr) <= MaxDuration
                         THEN <<dr>> ELSE << >>) \o rest.dates,
              log |-> (IF Duration(dr) > MaxDuration
                       THEN <<LogEntry("long duration", TRUE)>> ELSE << >>) \o rest.log]

\* a loop "for d in ds" that does not mark the date ranges of struck-out text
RECURSIVE ExamineDates_NeverCancelled(_)
ExamineDates_NeverCancelled(ds) ==
    IF ds = << >> THEN [dates |-> << >>, log |-> << >>]
    ELSE LET sc == ScanForBracketedText(Head(ds), "s")
             dr == FanzineDateRangeMatch(sc.text, FALSE)
             rest == ExamineDates_NeverCancelled(Tail(ds))
         IN  [dates |-> (IF ~IsEmptyDate(dr) THEN <<dr>> ELSE << >>) \o rest.dates,
              log |-> (IF Duration(dr) > MaxDuration
                       THEN <<LogEntry("long duration", TRUE)>> ELSE << >>) \o rest.log]

\* the loop "for d in ds": the date ranges kept, and the log entries written
RECURSIVE ExamineDates(_)
ExamineDates(ds) ==
    IF ds = << >> THEN [dates |-> << >>, log |-> << >>]
    ELSE LET sc == ScanForBracketedText(Head(ds), "s")
             dr == FanzineDateRangeMatch(sc.text, sc.found)
             rest == ExamineDates(Tail(ds))
         IN  [dates |-> (IF ~IsEmptyDate(dr) THEN <<dr>> ELSE << >>) \o rest.dates,
              log |-> (IF Duration(dr) > MaxDuration
                       THEN <<LogEntry("long duration", TRUE)>> ELSE << >>) \o rest.log]

ExtractDateInfo(datetext) ==
    LET t1 == Strip(CompressWhitespace(StripTrailingParen(datetext)))
        spans == StrikeSpans(t1)
        t2 == IF Len(spans) > 0 THEN Strip(RemoveStrikeSpans(t1)) ELSE t1
        ds0 == IF Len(t2) > 0 THEN Append(spans, t2) ELSE spans
        ds == SelectSeq(ds0, LAMBDA x : x # NoText)
        ex == ExamineDates(ds)
        n == Len(ex.dates)
        enter == <<LogEntry("ExtractDateInfo", FALSE)>>
    IN  IF Len(ds) = 0
        THEN [dates |-> << >>, log |-> enter \o <<LogEntry("Date error", FALSE)>>]
        ELSE [dates |-> ex.dates,
              log |-> enter \o ex.log \o
                      (IF n = 0 THEN <<LogEntry("No dates found", TRUE)>>
                       ELSE IF n = 1 THEN <<LogEntry("1 date", FALSE)>>
                       ELSE [k \in 1..n |-> LogEntry("dates", FALSE)])]

\* ds as the loop "for d in ds" receives it: the struck-out spans, then what
\* is left of the text
DateCandidates(datetext) ==
    LET t1 == Strip(CompressWhitespace(StripTrailingParen(datetext)))
        spans == StrikeSpans(t1)
        t2 == IF Len(spans) > 0 THEN Strip(RemoveStrikeSpans(t1)) ELSE t1
        ds0 == IF Len(t2) > 0 THEN Append(spans, t2) ELSE spans
    IN  SelectSeq(ds0, LAMBDA x : x # NoText)

(***************************************************************************)
(* LocalePage and LocaleHandling.LocaleFromName (LocalePage.py): a         *)
(* LocalePage is the name of its page, the empty text for the empty        *)
(* LocalePage.                                                             *)
(***************************************************************************)
\* LocaleHandling.locales: the names of the Locale pages
Locales == {<<"Boston">>, <<"London">>}

LocaleFromName(pagename) == IF pagename \in Locales THEN pagename ELSE NoText

\* a LocalePage.IsEmpty that never answers True
LocaleIsEmpty_Never(loc) == FALSE

\* LocalePage.IsEmpty
LocaleIsEmpty(loc) == loc = NoText

(***************************************************************************)
(* ConInstanceInfo (Conventions.py)                                        *)
(***************************************************************************)
ConInstanceLink(link, text) == [Link |-> link, Text |-> text, Cancelled |-> FALSE]

\* ConInstanceInfo.__init__ called with Link and Text (lists of equal length;
\* one string is the list of one), Locale (a string), DateRange, Virtual,
\* Cancelled and DisplayName.  The constructor reads the keyword
\* "DsiplayName", which no caller passes, so _displayName stays "".  A
\* cancelled date range makes the instance cancelled and is itself reset.
ConInstanceInfoInit(links, texts, locale, dateRange, virtual, cancelled, displayName) ==
    [CIL |-> [k \in 1..Len(links) |-> ConInstanceLink(links[k], texts[k])],
     seriesName |-> NoText,
     displayName |-> NoText,
     LocalePage |-> LocaleFromName(locale),
     DateRange |-> [dateRange EXCEPT !.Cancelled = FALSE],
     Virtual |-> virtual,
     Cancelled |-> cancelled \/ dateRange.Cancelled]

\* the property Link: the first link, the first text when that link is empty
InstanceLink(c) ==
    IF Len(c.CIL) = 0 THEN NoText
    ELSE IF c.CIL[1].Link = NoText THEN c.CIL[1].Text
    ELSE c.CIL[1].Link

\* ConInstanceInfo.__eq__
InstanceEq(self, other) ==
    IF \/ self.DateRange # other.DateRange
       \/ self.Cancelled # other.Cancelled
       \/ self.Virtual # other.Virtual
    THEN FALSE
    ELSE IF Len(self.CIL) # Len(other.CIL) THEN FALSE
    ELSE \A k \in 1..Len(self.CIL) :
            /\ self.CIL[k].Text = other.CIL[k].Text
            /\ self.CIL[k].Link = other.CIL[k].Link

\* a hash that also takes in the location, which __eq__ does not compare
InstanceHash_WithLocale(c) ==
    [Cancelled |-> c.Cancelled,
     Link |-> <<c.LocalePage, IF Len(c.CIL) = 0 THEN NoText ELSE c.CIL[1].Text>>,
     DateRange |-> c.DateRange,
     CIL |-> [x \in {c.CIL[k] : k \in 1..Len(c.CIL)} |->
                 Cardinality({k \in 1..Len(c.CIL) : c.CIL[k] = x})]]

\* ConInstanceInfo.__hash__: the sum of the hashes of Cancelled, Link, the
\* date range and the links, kept here as the collection of the summands
\* (equal summands give equal sums)
InstanceHash(c) ==
    [Cancelled |-> c.Cancelled,
     Link |-> InstanceLink(c),
     DateRange |-> c.DateRange,
     CIL |-> [x \in {c.CIL[k] : k \in 1..Len(c.CIL)} |->
                 Cardinality({k \in 1..Len(c.CIL) : c.CIL[k] = x})]]

(***************************************************************************)
(* Conventions (Conventions.py): the registry.  The stored ConInstanceInfo *)
(* objects live in heap, in the order they were stored, and are named by   *)
(* their position; _conDict is kept in insertion order as a sequence of    *)
(* (key, list of objects); _setOfCIIs is the set of the objects added.     *)
(***************************************************************************)
VARIABLES heap, conDict, setOfCIIs, log, pc, nRows, nCalls, lastRow, lastOp,
          report, nPages, lastPage, inputs

vars == <<heap, conDict, setOfCIIs, log, pc, nRows, nCalls, lastRow, lastOp,
          report, nPages, lastPage, inputs>>

\* the registry as the operators below pass it along
Registry == [heap |-> heap, conDict |-> conDict, setOfCIIs |-> setOfCIIs,
             log |-> << >>, raised |-> FALSE]

\* Conventions.__init__
EmptyRegistry == [heap |-> << >>, conDict |-> << >>, setOfCIIs |-> {},
                  log |-> << >>, raised |-> FALSE]

\* the position of key in _conDict, 0 when it is not a key
DictIndex(dict, key) ==
    IF \E k \in 1..Len(dict) : dict[k].key = key
    THEN CHOOSE k \in 1..Len(dict) : dict[k].key = key
    ELSE 0

\* a membership test that also compares the locations
SetContains_SameLocale(reg, cii) ==
    \E id \in reg.setOfCIIs :
        /\ reg.heap[id].DateRange = cii.DateRange
        /\ reg.heap[id].Cancelled = cii.Cancelled
        /\ reg.heap[id].Virtual = cii.Virtual
        /\ reg.heap[id].CIL = cii.CIL
        /\ reg.heap[id].LocalePage = cii.LocalePage

\* "cii in self._setOfCIIs": an element with the same hash that compares equal
SetContains(reg, cii) ==
    \E id \in reg.setOfCIIs :
        /\ InstanceEq(reg.heap[id], cii)
        /\ InstanceHash(reg.heap[id]) = InstanceHash(cii)

\* self._conDict[index] of a defaultdict(list): a missing key is added with
\* an empty list
DictGet(dict, index) ==
    IF DictIndex(dict, index) # 0 THEN dict
    ELSE Append(dict, [key |-> index, cons |-> << >>])

\* Conventions.__getitem__: the registry afterwards
ConventionsGetItem(reg, index) == [reg EXCEPT !.conDict = DictGet(reg.conDict, index)]

\* the list that Conventions.__getitem__ returns, as the stored instances
Lookup(reg, index) ==
    LET d == DictGet(reg.conDict, index)
        ids == d[DictIndex(d, index)].cons
    IN  [k \in 1..Len(ids) |-> reg.heap[ids[k]]]

\* Conventions.__contains__
ConventionsContains(reg, item) == DictIndex(reg.conDict, item) # 0

\* Conventions.__setitem__
ConventionsSetItem(reg, index, val) ==
    LET id == Len(reg.heap) + 1
        d == DictGet(reg.conDict, index)
        k == DictIndex(d, index)
    IN  [reg EXCEPT
            !.heap = Append(reg.heap, val),
            !.conDict = [d EXCEPT ![k].cons = Append(d[k].cons, id)],
            !.setOfCIIs = IF SetContains(reg, val) THEN reg.setOfCIIs
                          ELSE reg.setOfCIIs \cup {id}]

\* the objects of _conDict.values(), list after list
RECURSIVE DictObjects(_)
DictObjects(dict) ==
    IF dict = << >> THEN << >> ELSE Head(dict).cons \o DictObjects(Tail(dict))

\* hits=[y for x in self._conDict.values() for y in x if cii == y]
Hits(reg, cii) ==
    SelectSeq(DictObjects(reg.conDict), LAMBDA id : InstanceEq(cii, reg.heap[id]))

\* an update that rebuilds the stored instance from the duplicate's names,
\* date range and location
UpdateLocale_Rebuilds(reg, id, cii) ==
    [reg EXCEPT
        !.heap[id] = [cii EXCEPT !.Virtual = FALSE, !.Cancelled = FALSE],
        !.log = reg.log \o <<LogEntry("AppendCon: existing", TRUE),
                             LogEntry("duplicate", TRUE),
                             LogEntry("Locale has been updated", TRUE)>>]

\* "hits[0].LocalePage=cii.LocalePage" with the three entries Append has
\* logged by then
UpdateLocale(reg, id, cii) ==
    [reg EXCEPT
        !.heap[id].LocalePage = cii.LocalePage,
        !.log = reg.log \o <<LogEntry("AppendCon: existing", TRUE),
                             LogEntry("duplicate", TRUE),
                             LogEntry("Locale has been updated", TRUE)>>]

\* the key under which Append stores a new instance
AppendKey(cii) == cii.displayName

\* Conventions.Append(ciilist).  The loop returns after the first instance
\* it stores; hits[0] on an empty hits raises IndexError.
RECURSIVE ConventionsAppend(_, _)
ConventionsAppend(reg, ciilist) ==
    IF ciilist = << >> \/ reg.raised THEN reg
    ELSE LET cii == Head(ciilist)
             hits == Hits(reg, cii)
         IN  IF ~SetContains(reg, cii)
             THEN ConventionsSetItem(reg, AppendKey(cii), cii)
             ELSE IF LocaleIsEmpty(cii.LocalePage)
             THEN ConventionsAppend(reg, Tail(ciilist))
             ELSE IF hits = << >> THEN [reg EXCEPT !.raised = TRUE]
             ELSE IF reg.heap[hits[1]].LocalePage = cii.LocalePage
             THEN ConventionsAppend(reg, Tail(ciilist))
             ELSE IF LocaleIsEmpty(reg.heap[hits[1]].LocalePage)
             THEN ConventionsAppend(UpdateLocale(reg, hits[1], cii), Tail(ciilist))
             ELSE ConventionsAppend(
                    [reg EXCEPT
                        !.log = reg.log \o <<LogEntry("AppendCon: existing", TRUE),
                                             LogEntry("duplicate", TRUE)>>],
                    Tail(ciilist))

(***************************************************************************)
(* The row loop of ScanF3PagesForConInfo (ScanF3PagesForConInfo.py)        *)
(***************************************************************************)
\* CrosscheckListElement (HelpersPackage): the column whose header is one of
\* names, 0 for None
CrosscheckListElement(names, headers) ==
    IF \E k \in 1..Len(headers) : headers[k] \in names
    THEN CHOOSE k \in 1..Len(headers) :
            /\ headers[k] \in names
            /\ \A m \in 1..(k - 1) : headers[m] \notin names
    ELSE 0

ConColumn(headers) == CrosscheckListElement({"Convention", "Convention Name", "Name"}, headers)
DateColumn(headers) == CrosscheckListElement({"Date", "Dates"}, headers)
LocColumn(headers) == CrosscheckListElement({"Locations", "Location"}, headers)

VirtualAnnotations ==
    {"virtual", "online", "held online", "moved online", "virtual convention"}

\* the length of a match of "\((:?virtual|online|held online|moved
\* online|virtual convention)\)" at position 1, 0 if none
AnnotationLen(t) ==
    IF Len(t) >= 3 /\ t[1] = "(" /\ t[2] \in VirtualAnnotations /\ t[3] = ")" THEN 3
    ELSE IF Len(t) >= 4 /\ t[1] = "(" /\ t[2] = ":" /\ t[3] = "virtual" /\ t[4] = ")" THEN 4
    ELSE 0

RECURSIVE RemoveAnnotations(_)
RemoveAnnotations(t) ==
    IF t = NoText THEN NoText
    ELSE IF AnnotationLen(t) > 0 THEN RemoveAnnotations(From(t, AnnotationLen(t) + 1))
    ELSE <<Head(t)>> \o RemoveAnnotations(Tail(t))

\* ScanForVirtual(s) -> (found, text).  The second substitution of the
\* function needs a match of the same pattern, so it changes nothing that
\* the first left unchanged.
ScanForVirtual(t) ==
    LET newval == RemoveAnnotations(t)
    IN  IF t # newval THEN [found |-> TRUE, text |-> Strip(newval)]
        ELSE [found |-> FALSE, text |-> t]

\* a virtual scan that stores the text without the annotation in the row
RowAfterVirtualScan_Strips(row) ==
    [idx \in 1..Len(row) |-> ScanForVirtual(row[idx]).text]

\* the row after the loop "for idx, cell in enumerate(row)": a cell with an
\* annotation is assigned cell, the text it already holds
RowAfterVirtualScan(row) ==
    [idx \in 1..Len(row) |->
        IF ScanForVirtual(row[idx]).found THEN row[idx] ELSE row[idx]]

\* virtual=virtual or v2, over the cells of the row
RowVirtual(row) == \E idx \in 1..Len(row) : ScanForVirtual(row[idx]).found

\* an instance that takes its cancellation from the name alone
MakeInstance_NameCancelled(nel, dtel, location) ==
    ConInstanceInfoInit(<<nel.Link>>, <<nel.Text>>, location,
                        [dtel EXCEPT !.Cancelled = FALSE], nel.Virtual,
                        nel.Cancelled, NoText)

\* ConInstanceInfo(Link=nel.Link, Text=nel.Text, DateRange=dtel, Locale=location,
\*                 Virtual=nel.Virtual, Cancelled=nel.Cancelled or dtel.Cancelled)
MakeInstance(nel, dtel, location) ==
    ConInstanceInfoInit(<<nel.Link>>, <<nel.Text>>, location, dtel, nel.Virtual,
                        nel.Cancelled \/ dtel.Cancelled, NoText)

\* cardinality cases whose one-name case gives every instance the first date
Reconcile_FirstDate(names, dates, location) ==
    IF Len(names) = 0
    THEN [outcome |-> "no names", built |-> << >>]
    ELSE IF Len(names) = Len(dates)
    THEN [outcome |-> "equal",
          built |-> [i \in 1..Len(names) |-> MakeInstance(names[i], dates[i], location)]]
    ELSE IF Len(dates) > 1 /\ Len(names) = 1
    THEN [outcome |-> "one name",
          built |-> [i \in 1..Len(dates) |-> MakeInstance(names[1], dates[1], location)]]
    ELSE [outcome |-> "not handled", built |-> << >>]

\* cardinality cases whose last case pairs as many names and dates as it can
Reconcile_PairsWhatItCan(names, dates, location) ==
    IF Len(names) = 0
    THEN [outcome |-> "no names", built |-> << >>]
    ELSE IF Len(names) = Len(dates)
    THEN [outcome |-> "equal",
          built |-> [i \in 1..Len(names) |-> MakeInstance(names[i], dates[i], location)]]
    ELSE IF Len(dates) > 1 /\ Len(names) = 1
    THEN [outcome |-> "one name",
          built |-> [i \in 1..Len(dates) |-> MakeInstance(names[1], dates[i], location)]]
    ELSE [outcome |-> "not handled",
          built |-> [i \in 1..(IF Len(names) < Len(dates) THEN Len(names) ELSE Len(dates)) |->
                        MakeInstance(names[i], dates[i], location)]]

\* the cardinality cases of the row loop: which case the row takes and the
\* instances it constructs, in order
Reconcile(names, dates, location) ==
    IF Len(names) = 0
    THEN [outcome |-> "no names", built |-> << >>]
    ELSE IF Len(names) = Len(dates)
    THEN [outcome |-> "equal",
          built |-> [i \in 1..Len(names) |-> MakeInstance(names[i], dates[i], location)]]
    ELSE IF Len(dates) > 1 /\ Len(names) = 1
    THEN [outcome |-> "one name",
          built |-> [i \in 1..Len(dates) |-> MakeInstance(names[1], dates[i], location)]]
    ELSE [outcome |-> "not handled", built |-> << >>]

\* conventions.Append([cii]) for each instance constructed, in order
RECURSIVE AppendEach(_, _)
AppendEach(reg, built) ==
    IF built = << >> THEN reg
    ELSE AppendEach(ConventionsAppend(reg, <<Head(built)>>), Tail(built))

NoRow == [page |-> NoText, headers |-> << >>, row |-> << >>, rowAfter |-> << >>,
          virtual |-> FALSE, outcome |-> "none", parsed |-> << >>, names |-> << >>,
          dates |-> << >>, built |-> << >>, log |-> << >>]

\* the last part of one iteration of "for row in table.Rows": the case the
\* row takes, and what it logs outside Append
RowReconciled(seen, nameInfo, names, dateInfo, rec) ==
    [seen EXCEPT
        !.outcome = rec.outcome,
        !.parsed = nameInfo.entries,
        !.names = names,
        !.dates = dateInfo.dates,
        !.built = rec.built,
        !.log = seen.log \o dateInfo.log
                \o (IF rec.outcome = "no names"
                    THEN <<LogEntry("No names found in row", FALSE)>>
                    ELSE << >>)
                \o (IF rec.outcome = "not handled"
                    THEN <<LogEntry("Name/date combinations not yet handled", TRUE)>>
                    ELSE << >>)]

\* x=nameEntryList.DisplayNameMarkup, then the cases on the entries as the
\* property left them
RowNamed(seen, nameInfo, names, dateInfo, location) ==
    RowReconciled(seen, nameInfo, names, dateInfo, Reconcile(names, dateInfo.dates, location))

\* the row once both cells are parsed; an exception of the name parser
\* leaves the scan
RowParsed(seen, nameInfo, dateInfo, location) ==
    IF nameInfo.raised THEN [seen EXCEPT !.outcome = "raised"]
    ELSE RowNamed(seen, nameInfo, DisplayNameMarkup(nameInfo.entries), dateInfo, location)

\* the row after the virtual scan: the location, the two parsers
RowScanned(seen, headers, conseries) ==
    RowParsed(seen,
              ExtractConNameInfo(seen.rowAfter[ConColumn(headers)], conseries),
              ExtractDateInfo(seen.rowAfter[DateColumn(headers)]),
              IF LocColumn(headers) # 0 THEN Strip(seen.rowAfter[LocColumn(headers)])
              ELSE NoText)

\* one iteration of "for row in table.Rows" on a table with these headers, up
\* to the calls of conventions.Append: what the iteration computes (rowAfter:
\* the row after the virtual scan; parsed: the entries ExtractConNameInfo
\* returned; names: the entries as the cases read them, after
\* DisplayNameMarkup has run; built: the instances constructed, in order;
\* log: the entries logged outside Append)
RowInfo(page, headers, row, conseries) ==
    IF \/ Len(row) < Len(headers)
       \/ Len(row[ConColumn(headers)]) = 0
       \/ Len(row[DateColumn(headers)]) = 0
    THEN [NoRow EXCEPT !.page = page, !.headers = headers, !.row = row,
                       !.rowAfter = row, !.outcome = "skipped"]
    ELSE RowScanned([NoRow EXCEPT
                        !.page = page, !.headers = headers, !.row = row,
                        !.rowAfter = RowAfterVirtualScan(row),
                        !.virtual = RowVirtual(row),
                        !.log = <<LogEntry("virtual=", FALSE),
                                  LogEntry("ExtractConNameInfo2", FALSE)>>],
                    headers, conseries)

\* the registry after the iteration: the instances constructed are appended
\* one by one; an exception raised by the name parser or by Append leaves
\* the scan.  Append logs only for an instance a row has constructed, so its
\* entries follow the row's own.
ProcessRow(reg, info) ==
    LET after == AppendEach(reg, info.built)
    IN  IF info.outcome = "raised"
        THEN [reg EXCEPT !.raised = TRUE, !.log = info.log]
        ELSE [after EXCEPT !.log = info.log \o after.log]

(***************************************************************************)
(* The location pass of ScanF3PagesForConInfo (ScanF3PagesForConInfo.py)   *)
(***************************************************************************)
\* "for con in conventions[page.Name]: con.LocalePage=loc"
SetLocaleOfAll(reg, name, loc) ==
    [reg EXCEPT
        !.heap = [id \in DOMAIN reg.heap |->
                    IF \E k \in 1..Len(reg.conDict[DictIndex(reg.conDict, name)].cons) :
                          reg.conDict[DictIndex(reg.conDict, name)].cons[k] = id
                    THEN [reg.heap[id] EXCEPT !.LocalePage = loc]
                    ELSE reg.heap[id]],
        !.log = <<LogEntry("gets loc", FALSE)>>]

\* the branch "if not loc.IsEmpty" on a con instance page: the registry
\* afterwards and the lines written to the discrepancies file
VisitWithLocale(reg, page, loc) ==
    IF ~ConventionsContains(reg, page.Name)
    THEN [reg |-> reg, report |-> <<[page |-> page.Name, line |-> "not in conventions"]>>]
    ELSE [reg |-> SetLocaleOfAll(ConventionsGetItem(reg, page.Name), page.Name, loc),
          report |-> << >>]

\* one iteration of the location pass on a con instance page.  A page whose
\* Locale names no Locale page goes on to
\* LocaleHandling().ScanConPageforLocale2, a method LocaleHandling does not
\* have: the call raises AttributeError.
VisitPage(reg, page) ==
    IF ~LocaleIsEmpty(LocaleFromName(page.LocaleStr))
    THEN VisitWithLocale(reg, page, LocaleFromName(page.LocaleStr))
    ELSE [reg |-> [reg EXCEPT !.raised = TRUE], report |-> << >>]

(***************************************************************************)
(* The inputs: the pages, tables and rows of the scan, and the instances   *)
(* a caller appends.  The cells are the forms listed in the comments of    *)
(* ScanF3PagesForConInfo.py, with one-atom names and dates.                *)
(***************************************************************************)
MaxRows == 2
MaxCalls == 2
MaxPages == 2

\* [[name]], [[link|text]], <s>text</s>, " / "
Linked(name) == <<"[", "[", name, "]", "]">>
Piped(link, text) == <<"[", "[">> \o link \o <<"|">> \o text \o <<"]", "]">>
Struck(t) == OpenTag("s") \o t \o CloseTag("s")
Slash == <<" ", "/", " ">>

\* the con series pages; their names are the list conseries
SeriesPages == {<<"S">>}
ConSeries == SeriesPages

\* the name cells every date cell is combined with
CoreNameCells ==
    { Linked("A"),
      Linked("A") \o Slash \o Linked("B") }

NameCells ==
    CoreNameCells \cup
    { Struck(Linked("W")) \o Slash \o Linked("L"),
      Linked("A") \o <<" ", "(", "virtual", ")">>,
      <<"Boskone 23">>,
      Struck(Linked("A")),
      Piped(<<"P">>, <<"A">> \o Slash \o <<"B">>),
      Piped(<<"S">>, <<"A">>),
      Piped(<<"P">>, <<"A", "|", "B">>),
      <<"A">> \o Slash \o Piped(<<"Q">>, <<"B">>),
      Struck(Linked("A") \o Slash \o Linked("B")),
      Linked("A") \o <<" ", "/">>,
      Piped(<<"P">>, <<"A">> \o Slash \o <<"B">>) \o Slash \o Linked("C"),
      NoText }

\* the date cells every name cell is combined with
CoreDateCells ==
    { <<"D1">>,
      Struck(<<"D1">>) \o <<" ", "D2">> }

DateCells ==
    CoreDateCells \cup
    { Struck(<<"D1">>),
      Struck(<<"D1">>) \o Struck(<<"D2">>) \o <<" ", "D3">>,
      Struck(<<"D1">>) \o Struck(<<"D2">>),
      <<"L1">>,
      Struck(<<"L1">>) \o <<" ", "D2">>,
      <<"TBD">>,
      <<"D1", " ", "(", "Easter", ")">>,
      <<"D3", " ">> \o Struck(<<"D1">>),
      NoText }

HeadersWithLocation == <<"Convention", "Dates", "Location">>
HeadersNoLocation == <<"Name", "Date">>

\* the rows of the scans that go on to the location pass
LocatedRows ==
    { <<HeadersWithLocation, <<Linked("A"), <<"D1">>, NoText>>>>,
      <<HeadersWithLocation, <<Linked("A"), <<"D1">>, <<" ", "Boston">>>>>>,
      <<HeadersWithLocation, <<Linked("A") \o <<" ", "(", "virtual", ")">>, <<"D1">>,
                               <<" ", "Boston">>>>>>,
      <<HeadersWithLocation, <<Linked("A") \o Slash \o Linked("B"),
                               Struck(<<"D1">>) \o <<" ", "D2">>, NoText>>>>,
      <<HeadersWithLocation, <<Piped(<<"Z">>, <<"A">>), <<"D1">>, NoText>>>> }

\* the (headers, row) pairs of the tables
TableRows ==
    LocatedRows
    \cup {<<HeadersWithLocation, <<n, d, NoText>>>> : n \in NameCells, d \in CoreDateCells}
    \cup {<<HeadersWithLocation, <<n, d, NoText>>>> : n \in CoreNameCells, d \in DateCells}
    \cup {<<HeadersWithLocation, <<n, d, <<" ", "Boston">>>>>> :
             n \in {Linked("A"), Linked("A") \o <<" ", "(", "virtual", ")">>},
             d \in {<<"D1">>, Struck(<<"D1">>)}}
    \cup {<<HeadersWithLocation, <<Linked("A"), <<"D1">>>>>>,
          <<HeadersNoLocation, <<Linked("A"), <<"D1">>>>>>}

\* the con instance pages: their names and the Locale they carry
InstancePages ==
    { [Name |-> <<"A">>, LocaleStr |-> <<"Boston">>],
      [Name |-> <<"Z">>, LocaleStr |-> <<"London">>],
      [Name |-> <<"A">>, LocaleStr |-> <<"Atlantis">>],
      [Name |-> <<"Z">>, LocaleStr |-> NoText] }

\* the rows' analyses, computed once
RowInfoOf ==
    [ptr \in SeriesPages \X TableRows |-> RowInfo(ptr[1], ptr[2][1], ptr[2][2], ConSeries)]
        @@ << >>

\* the instances a caller of Append constructs
InstanceInputs ==
    {ConInstanceInfoInit(c[1], c[2], loc, [Date |-> d, Cancelled |-> dc], v, canc, dn) :
        c \in {<<<<NoText>>, <<<<"A">>>>>>,
               <<<<<<"P">>, NoText>>, <<<<"A">>, <<"B">>>>>>},
        loc \in {NoText, <<"Boston">>, <<"London">>},
        d \in {"D1", "D2"},
        dc \in BOOLEAN, v \in BOOLEAN, canc \in BOOLEAN,
        dn \in {NoText, <<"A">>}}

\* the lists passed to Append: one instance, or two
ListInputs ==
    {<<a>> : a \in InstanceInputs}
    \cup {<<a, b>> : a, b \in {x \in InstanceInputs :
                                  x.DateRange.Date = "D1" /\ ~x.Virtual /\ ~x.Cancelled
                                  /\ x.LocalePage # <<"London">>}}

\* the names looked up
LookupKeys == {NoText, <<"A">>, <<"P">>}

(***************************************************************************)
(* The state machine.  lastRow is the row the latest ScanRow read, lastOp  *)
(* the latest call on the registry, log what the latest step logged,       *)
(* report the lines written to "Con location discrepancies.txt", lastPage  *)
(* the con instance page the location pass visited last, inputs the rows   *)
(* and pages read so far, each row with the cells the scan left in it.     *)
(***************************************************************************)
NoOp == [op |-> "none", arg |-> << >>, key |-> NoText]
NoPage == [Name |-> NoText, LocaleStr |-> NoText]

\* a table row as read, and as the row loop left it in its table
RowRead(page, headers, row, left) ==
    [kind |-> "row", page |-> page, headers |-> headers, row |-> row, left |-> left,
     ipage |-> NoPage]

\* a con instance page as read by the location pass
PageRead(page) ==
    [kind |-> "page", page |-> NoText, headers |-> << >>, row |-> << >>, left |-> << >>,
     ipage |-> page]

\* ScanF3PagesForConInfo run on the rows and pages of ins as they now are,
\* from conventions=Conventions(): the registry it builds
RerunStep(reg, in) ==
    IF in.kind = "row"
    THEN ProcessRow(reg, RowInfo(in.page, in.headers, in.left, ConSeries))
    ELSE VisitPage(reg, in.ipage).reg

RECURSIVE Rerun(_, _)
Rerun(reg, ins) ==
    IF ins = << >> \/ reg.raised THEN reg
    ELSE Rerun(RerunStep(reg, Head(ins)), Tail(ins))

Init ==
    /\ heap = << >>
    /\ conDict = << >>
    /\ setOfCIIs = {}
    /\ log = << >>
    /\ pc = "running"
    /\ nRows = 0
    /\ nCalls = 0
    /\ lastRow = << >>
    /\ lastOp = NoOp
    /\ report = << >>
    /\ nPages = 0
    /\ lastPage = NoPage
    /\ inputs = << >>

SetRegistry(reg) ==
    /\ heap' = reg.heap
    /\ conDict' = reg.conDict
    /\ setOfCIIs' = reg.setOfCIIs
    /\ log' = reg.log
    /\ pc' = IF reg.raised THEN "crashed" ELSE "running"

\* one row of a convention table of a con series page is scanned
ScanRow(page, headers, row) ==
    /\ pc = "running"
    /\ nRows < MaxRows
    /\ \E reg \in {ProcessRow(Registry, RowInfoOf[<<page, <<headers, row>>>>])} :
          SetRegistry(reg)
    /\ lastRow' = <<page, <<headers, row>>>>
    /\ nRows' = nRows + 1
    /\ inputs' = Append(inputs, RowRead(page, headers, row,
                                        RowInfoOf[<<page, <<headers, row>>>>].rowAfter))
    /\ UNCHANGED <<nCalls, lastOp, report, nPages, lastPage>>

ScanStep == \E page \in SeriesPages : \E tr \in TableRows : ScanRow(page, tr[1], tr[2])

\* what the latest ScanRow computed
LastInfo == IF lastRow = << >> THEN NoRow ELSE RowInfoOf[lastRow]

Next == ScanStep

Spec == Init /\ [][Next]_vars

\* the location pass visits a con instance page; the table pass is over
VisitInstancePage(page) ==
    /\ pc \in {"running", "locating"}
    /\ nPages < MaxPages
    /\ \E res \in {VisitPage(Registry, page)} :
          /\ heap' = res.reg.heap
          /\ conDict' = res.reg.conDict
          /\ setOfCIIs' = res.reg.setOfCIIs
          /\ log' = res.reg.log
          /\ pc' = IF res.reg.raised THEN "crashed" ELSE "locating"
          /\ report' = report \o res.report
    /\ lastPage' = page
    /\ nPages' = nPages + 1
    /\ inputs' = Append(inputs, PageRead(page))
    /\ UNCHANGED <<nRows, nCalls, lastRow, lastOp>>

\* a row of the tables of the scans that go on to the location pass
LocatedRowStep ==
    \E page \in SeriesPages : \E tr \in LocatedRows : ScanRow(page, tr[1], tr[2])

VisitStep == \E page \in InstancePages : VisitInstancePage(page)

NextLocation == LocatedRowStep \/ VisitStep

SpecLocation == Init /\ [][NextLocation]_vars

\* a caller appends a list of instances to the registry
AppendCall(ciilist) ==
    /\ pc = "running"
    /\ nCalls < MaxCalls
    /\ \E reg \in {ConventionsAppend(Registry, ciilist)} : SetRegistry(reg)
    /\ lastOp' = [op |-> "Append", arg |-> ciilist, key |-> NoText]
    /\ nCalls' = nCalls + 1
    /\ UNCHANGED <<nRows, lastRow, report, nPages, lastPage, inputs>>

\* a caller reads conventions[key]
GetItemCall(key) ==
    /\ pc = "running"
    /\ nCalls < MaxCalls
    /\ \E reg \in {ConventionsGetItem(Registry, key)} : SetRegistry(reg)
    /\ lastOp' = [op |-> "getitem", arg |-> << >>, key |-> key]
    /\ nCalls' = nCalls + 1
    /\ UNCHANGED <<nRows, lastRow, report, nPages, lastPage, inputs>>

\* a caller evaluates "key in conventions"
ContainsCall(key) ==
    /\ pc = "running"
    /\ nCalls < MaxCalls
    /\ lastOp' = [op |-> "contains", arg |-> << >>, key |-> key]
    /\ nCalls' = nCalls + 1
    /\ UNCHANGED <<heap, conDict, setOfCIIs, log, pc, nRows, lastRow, report, nPages,
                   lastPage, inputs>>

AppendStep == \E ciilist \in ListInputs : AppendCall(ciilist)
GetItemStep == \E key \in LookupKeys : GetItemCall(key)
ContainsStep == \E key \in LookupKeys : ContainsCall(key)

NextRegistry == AppendStep \/ GetItemStep \/ ContainsStep

SpecRegistry == Init /\ [][NextRegistry]_vars

\* the lists appended by the callers whose registry the location pass then
\* visits: one convention with and without a location, live, virtual or
\* cancelled, and a list of two
StoredLists ==
    {<<ConInstanceInfoInit(<<NoText>>, <<<<"A">>>>, loc, [Date |-> "D1", Cancelled |-> FALSE],
                           f[1], f[2], NoText)>> :
        loc \in {NoText, <<"Boston">>, <<"London">>},
        f \in {<<FALSE, FALSE>>, <<TRUE, FALSE>>, <<FALSE, TRUE>>}}
    \cup {<<ConInstanceInfoInit(<<NoText>>, <<<<"A">>>>, NoText,
                                [Date |-> "D1", Cancelled |-> FALSE], FALSE, FALSE, NoText),
            ConInstanceInfoInit(<<<<"Z">>>>, <<<<"A">>>>, <<"Boston">>,
                                [Date |-> "D2", Cancelled |-> TRUE], FALSE, FALSE, NoText)>>}

AppendStoredStep == \E ciilist \in StoredLists : AppendCall(ciilist)

NextStored == AppendStoredStep \/ GetItemStep \/ VisitStep

SpecStored == Init /\ [][NextStored]_vars

(***************************************************************************)
(* The claims                                                              *)
(***************************************************************************)
\* the number of entries of a log with this tag and severity
LogCount(lg, tag, isError) ==
    Cardinality({k \in DOMAIN lg : lg[k] = LogEntry(tag, isError)})

\* C1: a row whose parsed name list and parsed date list have the same
\* length n >= 1 builds exactly n instances, the i-th from names[i] and
\* dates[i], with Cancelled = names[i].Cancelled or dates[i].Cancelled; each
\* is in the registry after the row.  (names is the list as the row loop
\* reads it.)
C1_EqualCounts ==
    LET info == LastInfo
        n == Len(info.names)
    IN  (n >= 1 /\ n = Len(info.dates)) =>
        /\ info.outcome = "equal"
        /\ Len(info.built) = n
        /\ \A i \in 1..n :
            /\ info.built[i].CIL = <<ConInstanceLink(info.names[i].Link, info.names[i].Text)>>
            /\ info.built[i].DateRange.Date = info.dates[i].Date
            /\ info.built[i].Cancelled = (info.names[i].Cancelled \/ info.dates[i].Cancelled)
            /\ \E id \in setOfCIIs : InstanceEq(heap[id], info.built[i])

\* C1, its case: two live names with a struck-out date and a live date
C1_Witness ==
    /\ LastInfo.outcome = "equal"
    /\ Len(LastInfo.names) = 2
    /\ ~LastInfo.names[1].Cancelled
    /\ LastInfo.dates[1].Cancelled
    /\ ~LastInfo.dates[2].Cancelled
    /\ LastInfo.built[1].Cancelled
    /\ ~LastInfo.built[2].Cancelled

\* C2: a row with more than one parsed name and exactly one parsed date
\* produces exactly one instance, whose name list holds all of the row's
\* names in order
C2_ManyNamesOneDate ==
    LET info == LastInfo
    IN  (Len(info.names) > 1 /\ Len(info.dates) = 1) =>
        /\ Len(info.built) = 1
        /\ [k \in 1..Len(info.built[1].CIL) |-> info.built[1].CIL[k].Text]
             = [k \in 1..Len(info.names) |-> info.names[k].Text]

\* C3: a row with exactly one parsed name and k > 1 parsed dates builds
\* exactly k instances, the i-th with the name's Link and Text and the i-th
\* date; when all k dates are cancelled, all k instances are cancelled
C3_OneNameManyDates ==
    LET info == LastInfo
        k == Len(info.dates)
    IN  (Len(info.names) = 1 /\ k > 1) =>
        /\ Len(info.built) = k
        /\ \A i \in 1..k :
            /\ info.built[i].CIL = <<ConInstanceLink(info.names[1].Link, info.names[1].Text)>>
            /\ info.built[i].DateRange.Date = info.dates[i].Date
        /\ (\A i \in 1..k : info.dates[i].Cancelled)
             => (\A i \in 1..k : info.built[i].Cancelled)

\* C3, its case: one live name with two dates, both struck out
C3_Witness ==
    /\ LastInfo.outcome = "one name"
    /\ Len(LastInfo.dates) = 2
    /\ LastInfo.dates[1].Date # LastInfo.dates[2].Date
    /\ ~LastInfo.names[1].Cancelled
    /\ \A i \in 1..2 : LastInfo.dates[i].Cancelled /\ LastInfo.built[i].Cancelled

\* C4: a row whose name and date counts match none of the cases the row loop
\* handles adds no instance, leaves the registry as it was, and logs exactly
\* one "not yet handled" error
C4_NotHandled ==
    [][(/\ nRows' = nRows + 1
        /\ Len(RowInfoOf[lastRow'].names) >= 1
        /\ Len(RowInfoOf[lastRow'].names) # Len(RowInfoOf[lastRow'].dates)
        /\ ~(Len(RowInfoOf[lastRow'].names) = 1 /\ Len(RowInfoOf[lastRow'].dates) > 1))
       => (/\ RowInfoOf[lastRow'].built = << >>
           /\ heap' = heap
           /\ conDict' = conDict
           /\ setOfCIIs' = setOfCIIs
           /\ LogCount(log', "Name/date combinations not yet handled", TRUE) = 1)]_vars

\* C4, its case: a row with two names and three dates read into a registry
\* that already holds an instance
C4_Witness ==
    /\ nRows = 2
    /\ Len(heap) >= 1
    /\ LastInfo.outcome = "not handled"
    /\ Len(LastInfo.names) = 2
    /\ Len(LastInfo.dates) = 3
    /\ LogCount(log, "Name/date combinations not yet handled", TRUE) = 1

\* C5: after any sequence of Append calls on an empty registry, no two
\* stored instances are equal under __eq__, under one key or under two
C5_NoEqualStored ==
    LET ids == DictObjects(conDict)
    IN  \A i, j \in 1..Len(ids) :
            i # j => ~InstanceEq(heap[ids[i]], heap[ids[j]])

\* C5, its case: an instance equal to the stored one, with another location,
\* has been appended
C5_Witness ==
    /\ lastOp.op = "Append"
    /\ nCalls = 2
    /\ Len(DictObjects(conDict)) = 1
    /\ InstanceEq(heap[1], lastOp.arg[1])
    /\ LogCount(log, "duplicate", TRUE) = 1
    /\ LogCount(log, "Locale has been updated", TRUE) = 0

\* C6: appending one instance equal to a stored instance leaves the number
\* of stored instances unchanged, and changes the stored Location exactly
\* when the stored Location is empty and the appended one is not, to the
\* appended one
C6_DuplicateAppend ==
    [][(/\ nCalls' = nCalls + 1
        /\ lastOp'.op = "Append"
        /\ Len(lastOp'.arg) = 1
        /\ \E id \in DOMAIN heap : InstanceEq(heap[id], lastOp'.arg[1]))
       => (/\ Len(heap') = Len(heap)
           /\ conDict' = conDict
           /\ setOfCIIs' = setOfCIIs
           /\ \A id \in DOMAIN heap :
                IF InstanceEq(heap[id], lastOp'.arg[1])
                THEN /\ (heap'[id].LocalePage # heap[id].LocalePage)
                          <=> (heap[id].LocalePage = NoText
                               /\ lastOp'.arg[1].LocalePage # NoText)
                     /\ (heap'[id].LocalePage # heap[id].LocalePage)
                          => heap'[id].LocalePage = lastOp'.arg[1].LocalePage
                     /\ [heap'[id] EXCEPT !.LocalePage = NoText]
                          = [heap[id] EXCEPT !.LocalePage = NoText]
                ELSE heap'[id] = heap[id])]_vars

\* C6, its case: the second Append of an equal instance brought the location
\* the stored instance did not have
C6_Witness ==
    /\ lastOp.op = "Append"
    /\ Len(lastOp.arg) = 1
    /\ nCalls = 2
    /\ Len(heap) = 1
    /\ InstanceEq(heap[1], lastOp.arg[1])
    /\ heap[1].LocalePage = lastOp.arg[1].LocalePage
    /\ LogCount(log, "Locale has been updated", TRUE) = 1

\* C7: every stored instance is stored under its primary page name, its
\* first non-empty Link or, when it has none, its first Text: the lookup of
\* that name returns a list that contains the instance
C7_StoredUnderPageName ==
    \A id \in DOMAIN heap :
        LET c == heap[id]
            linked == {k \in 1..Len(c.CIL) : c.CIL[k].Link # NoText}
            first == CHOOSE k \in linked : \A m \in linked : k <= m
            name == IF linked # {} THEN c.CIL[first].Link ELSE c.CIL[1].Text
            found == Lookup(Registry, name)
        IN  \E m \in 1..Len(found) : found[m] = c

\* C8: no instance built from a table row is both Cancelled and Virtual
C8_CancelledNotVirtual ==
    \A i \in 1..Len(LastInfo.built) :
        ~(LastInfo.built[i].Cancelled /\ LastInfo.built[i].Virtual)

\* C9: the name cell "<s>[[W]]</s> / [[L]]" parses to exactly two entries, W
\* cancelled and L live, and with the date cell "<s>D1</s> D2" the row takes
\* the equal-count case and builds a cancelled W with D1 and a live L with D2
C9_StruckThenLive ==
    LET info == LastInfo
    IN  (/\ info.outcome \notin {"none", "skipped"}
         /\ info.row[1] = Struck(Linked("W")) \o Slash \o Linked("L")
         /\ info.row[2] = Struck(<<"D1">>) \o <<" ", "D2">>)
        => /\ Len(info.parsed) = 2
           /\ info.parsed[1].Text = <<"W">> /\ info.parsed[1].Cancelled
           /\ info.parsed[2].Text = <<"L">> /\ ~info.parsed[2].Cancelled
           /\ info.outcome = "equal"
           /\ Len(info.built) = 2
           /\ info.built[1].CIL[1].Text = <<"W">> /\ info.built[1].Cancelled
           /\ info.built[1].DateRange.Date = "D1"
           /\ info.built[2].CIL[1].Text = <<"L">> /\ ~info.built[2].Cancelled
           /\ info.built[2].DateRange.Date = "D2"

\* C10: a name cell that is one piece with no [[...]] span and no strikeout
\* parses to one entry whose Text is the whole cleaned piece and whose Link
\* is empty; with a single valid date the row builds one instance with empty
\* Link and that Text
C10_PlainName ==
    LET info == LastInfo
    IN  (/\ info.outcome \notin {"none", "skipped"}
         /\ \A k \in 1..Len(info.row[1]) : info.row[1][k] \notin {"[", "<", "/"}
         /\ Len(info.dates) = 1)
        => /\ Len(info.parsed) = 1
           /\ info.parsed[1].Text = CleanNameText(info.row[1])
           /\ info.parsed[1].Link = NoText
           /\ Len(info.built) = 1
           /\ info.built[1].CIL = <<ConInstanceLink(NoText, CleanNameText(info.row[1]))>>

\* the text the splitter received for the latest row's name cell
LastSplitInput ==
    IF LastInfo.outcome \in {"none", "skipped"} THEN NoText
    ELSE SplitInput(LastInfo.row[ConColumn(LastInfo.headers)])

\* C11: for text of balanced [[...]] spans and plain text, without "<" or
\* ">", the splitter returns 1 + (the number of "/" outside every [[...]]
\* span) pieces, and the whole text as the one piece when there is no such "/"
C11_SplitOutsideSpans ==
    LET t == LastSplitInput
        inSpan(k) == \E i \in 1..(k - 1) :
                        /\ StartsAt(t, <<"[", "[">>, i)
                        /\ FindFrom(t, <<"]", "]">>, i + 2) > k
        outside == {k \in 1..Len(t) : t[k] = "/" /\ ~inSpan(k)}
    IN  (/\ LastInfo.outcome \notin {"none", "skipped"}
         /\ \A k \in 1..Len(t) :
              /\ t[k] \notin {"<", ">"}
              /\ CountAtom(SubSeq(t, 1, k), "[") >= CountAtom(SubSeq(t, 1, k), "]")
         /\ CountAtom(t, "[") = CountAtom(t, "]"))
        => /\ Len(SplitByTopLevelSlashes(t)) = 1 + Cardinality(outside)
           /\ outside = {} => SplitByTopLevelSlashes(t) = <<t>>

\* C11, its case: a "/" inside a [[...]] span and a "/" between two spans,
\* split into two pieces
C11_Witness ==
    /\ LastInfo.outcome \notin {"none", "skipped"}
    /\ LastSplitInput = Piped(<<"P">>, <<"A">> \o Slash \o <<"B">>) \o Slash \o Linked("C")
    /\ SplitByTopLevelSlashes(LastSplitInput)
         = <<Piped(<<"P">>, <<"A">> \o Slash \o <<"B">>) \o <<" ">>, <<" ">> \o Linked("C")>>

\* C12: a "/" that lies between a "<" and the next ">" is never a split
\* point: the splitter returns 1 + (the number of "/" outside every [[...]]
\* span and outside every <...>) pieces
C12_NoSplitInsideAngles ==
    LET t == LastSplitInput
        inSpan(k) == \E i \in 1..(k - 1) :
                        /\ StartsAt(t, <<"[", "[">>, i)
                        /\ FindFrom(t, <<"]", "]">>, i + 2) > k
        inAngle(k) == \E i \in 1..(k - 1) :
                        /\ t[i] = "<"
                        /\ FindFrom(t, <<">">>, i + 1) > k
        outside == {k \in 1..Len(t) : t[k] = "/" /\ ~inSpan(k) /\ ~inAngle(k)}
    IN  LastInfo.outcome \notin {"none", "skipped"}
        => Len(SplitByTopLevelSlashes(t)) = 1 + Cardinality(outside)

\* the date ranges the date parser examined for the latest row, in order:
\* each candidate text matched, with its strikeout as Cancelled
LastExamined ==
    IF LastInfo.outcome \in {"none", "skipped", "raised"} THEN << >>
    ELSE LET ds == DateCandidates(LastInfo.rowAfter[DateColumn(LastInfo.headers)])
         IN  [k \in 1..Len(ds) |->
                FanzineDateRangeMatch(ScanForBracketedText(ds[k], "s").text,
                                      ScanForBracketedText(ds[k], "s").found)]

\* C13: the date parser returns exactly the non-empty date ranges it
\* examined, in order, the ones longer than 7 days included, and logs one
\* "long duration" entry for each range longer than 7 days
C13_LongDatesKept ==
    /\ LastInfo.dates = SelectSeq(LastExamined, LAMBDA dr : dr.Date # NoDate)
    /\ LogCount(LastInfo.log, "long duration", TRUE)
         = Cardinality({k \in 1..Len(LastExamined) : Duration(LastExamined[k]) > 7})
    /\ \A k \in 1..Len(LastExamined) :
         (LastExamined[k].Date # NoDate /\ Duration(LastExamined[k]) > 7)
           => \E m \in 1..Len(LastInfo.dates) : LastInfo.dates[m] = LastExamined[k]

\* C13, its case: a struck-out date range of 10 days followed by a live date
C13_Witness ==
    /\ Len(LastInfo.dates) = 2
    /\ LastInfo.dates[1] = [Date |-> "L1", Cancelled |-> TRUE]
    /\ Duration(LastInfo.dates[1]) > 7
    /\ LogCount(LastInfo.log, "long duration", TRUE) = 1

\* C14: no exception escapes the processing of a table row, whatever its
\* cells hold: after every row the scan is still running
C14_NoRowEscapes ==
    /\ pc = "running"
    /\ LastInfo.outcome # "raised"

\* C15: once the location pass has visited a con instance page that carries
\* a non-empty explicit Locale, every stored instance of that page (its Link
\* is the page's name) has that Locale as its Location
C15_ExplicitLocaleWins ==
    (nPages > 0 /\ lastPage.LocaleStr # NoText)
    => \A id \in DOMAIN heap :
          InstanceLink(heap[id]) = lastPage.Name
            => heap[id].LocalePage = lastPage.LocaleStr

C17_DiscardedRowLogged ==
    (/\ LastInfo.outcome \in {"skipped", "no names", "equal", "one name", "not handled"}
     /\ LastInfo.built = << >>)
    => Len(log) >= 1

\* C18: for a name cell that is one [[...]] span, the parser's entry has
\* Link = the part of the interior before the "|" and Text = the part after
\* it when the interior has a "|" (the link being no series page), and Link
\* empty and Text = the whole interior when it has none
C18_LinkAndText ==
    LET t == LastSplitInput
        n == Len(t)
        interior == SubSeq(t, 3, n - 2)
        p == FindFrom(interior, <<"|">>, 1)
    IN  (/\ LastInfo.outcome \notin {"none", "skipped", "raised"}
         /\ n >= 5
         /\ SubSeq(t, 1, 2) = <<"[", "[">>
         /\ SubSeq(t, n - 1, n) = <<"]", "]">>
         /\ \A k \in 1..Len(interior) : interior[k] \notin {"[", "]", "/"}
         /\ CountAtom(interior, "|") <= 1)
        => /\ Len(LastInfo.parsed) = 1
           /\ IF p # 0
              THEN SubSeq(interior, 1, p - 1) \notin ConSeries
                   => /\ LastInfo.parsed[1].Link = SubSeq(interior, 1, p - 1)
                      /\ LastInfo.parsed[1].Text = From(interior, p + 1)
              ELSE /\ LastInfo.parsed[1].Link = NoText
                   /\ LastInfo.parsed[1].Text = interior

\* C19: no entry the name parser returns has a Link that is a series page
\* name; a span "[[link|text]]" whose link is a series page gives an entry
\* with empty Link and Text = text
C19_NoSeriesLink ==
    LET t == LastSplitInput
        n == Len(t)
        interior == SubSeq(t, 3, n - 2)
        p == FindFrom(interior, <<"|">>, 1)
    IN  /\ \A k \in 1..Len(LastInfo.parsed) : LastInfo.parsed[k].Link \notin ConSeries
        /\ (/\ LastInfo.outcome \notin {"none", "skipped", "raised"}
            /\ n >= 5
            /\ SubSeq(t, 1, 2) = <<"[", "[">>
            /\ SubSeq(t, n - 1, n) = <<"]", "]">>
            /\ \A k \in 1..Len(interior) : interior[k] \notin {"[", "]", "/"}
            /\ CountAtom(interior, "|") = 1
            /\ SubSeq(interior, 1, p - 1) \in ConSeries)
           => /\ Len(LastInfo.parsed) = 1
              /\ LastInfo.parsed[1].Link = NoText
              /\ LastInfo.parsed[1].Text = From(interior, p + 1)

\* C19, its case: the name cell "[[S|A]]", S a series page
C19_Witness ==
    /\ LastInfo.outcome = "equal"
    /\ LastSplitInput = Piped(<<"S">>, <<"A">>)
    /\ <<"S">> \in ConSeries
    /\ LastInfo.parsed[1].Link = NoText
    /\ LastInfo.parsed[1].Text = <<"A">>

\* C20: the name parser returns no entry for an empty piece: every entry it
\* returns has non-empty Text
C20_NoEmptyEntries ==
    \A k \in 1..Len(LastInfo.parsed) : LastInfo.parsed[k].Text # NoText

\* C21: when a strikeout wrapper encloses a whole group of "/"-joined names,
\* as in "<s>[[A]] / [[B]]</s>", every entry the name parser produces from the
\* group is Cancelled
C21_GroupStrikeout ==
    LET t == LastSplitInput
        n == Len(t)
    IN  (/\ LastInfo.outcome \notin {"none", "skipped", "raised"}
         /\ n >= 8
         /\ SubSeq(t, 1, 3) = OpenTag("s")
         /\ SubSeq(t, n - 3, n) = CloseTag("s")
         /\ \A k \in 4..(n - 4) : t[k] \notin {"<", ">"}
         /\ \E k \in 4..(n - 4) : t[k] = "/")
        => \A k \in 1..Len(LastInfo.parsed) : LastInfo.parsed[k].Cancelled

\* the date ranges written in the latest row's date cell, from left to right
LastDatesWritten ==
    IF LastInfo.outcome \in {"none", "skipped", "raised"} THEN << >>
    ELSE SelectSeq(StripTrailingParen(LastInfo.rowAfter[DateColumn(LastInfo.headers)]),
                   LAMBDA a : a \in KnownDates)

\* C22: the list the date parser returns is in the left-to-right order in
\* which the date ranges are written in the cell, a live date written before
\* a struck-out one included
C22_TextOrder ==
    [k \in 1..Len(LastInfo.dates) |-> LastInfo.dates[k].Date] = LastDatesWritten

\* the candidate texts the date parser examined for the latest row: ds
LastCandidates ==
    IF LastInfo.outcome \in {"none", "skipped", "raised"} THEN << >>
    ELSE DateCandidates(LastInfo.rowAfter[DateColumn(LastInfo.headers)])

\* C23: the list the date parser returns has at most one entry that is not
\* cancelled, and that entry is the last; the cancelled entries are the date
\* ranges of the <s>...</s> spans, one for each span that holds a date range
C23_OneLiveLast ==
    LET d == LastInfo.dates
        ds == LastCandidates
        isSpan(x) == /\ StartsAt(x, OpenTag("s"), 1)
                     /\ StartsAt(x, CloseTag("s"), Len(x) - 3)
    IN  /\ \A k \in 1..Len(d) : ~d[k].Cancelled => k = Len(d)
        /\ Cardinality({k \in 1..Len(d) : ~d[k].Cancelled}) <= 1
        /\ Cardinality({k \in 1..Len(d) : d[k].Cancelled})
             = Cardinality({k \in 1..Len(ds) :
                               isSpan(ds[k]) /\ LastExamined[k].Date # NoDate})

\* C23, its case: two struck-out date ranges followed by a live one
C23_Witness ==
    /\ Len(LastCandidates) = 3
    /\ Len(LastInfo.dates) = 3
    /\ LastInfo.dates[1].Cancelled
    /\ LastInfo.dates[2].Cancelled
    /\ ~LastInfo.dates[3].Cancelled

\* C24: when the location pass visits a con instance page that carries no
\* explicit Locale, it scans the page's text and goes on: no stored instance
\* with a non-empty Location has it replaced, and an instance of the page
\* with an empty Location is the only kind that may receive the scanned one
C24_ScannedNeverReplaces ==
    [][(/\ nPages' = nPages + 1
        /\ LocaleIsEmpty(LocaleFromName(lastPage'.LocaleStr)))
       => (/\ pc' = "locating"
           /\ Len(heap') = Len(heap)
           /\ \A id \in DOMAIN heap :
                \/ heap'[id] = heap[id]
                \/ /\ LocaleIsEmpty(heap[id].LocalePage)
                   /\ InstanceLink(heap[id]) = lastPage'.Name)]_vars

\* C25: no Append, lookup or visit of the location pass changes the names,
\* the date range, Cancelled, Virtual or the series name of an instance the
\* registry already holds: a stored instance changes in its Location only
C25_OnlyLocationChanges ==
    [][\A id \in DOMAIN heap :
          /\ id \in DOMAIN heap'
          /\ [heap'[id] EXCEPT !.LocalePage = NoText]
               = [heap[id] EXCEPT !.LocalePage = NoText]]_vars

\* C25, its case: a stored virtual instance without a location was appended
\* again with one, looked up, and visited by the location pass
C25_Witness ==
    /\ nCalls >= 2
    /\ nPages >= 1
    /\ pc = "locating"
    /\ Len(heap) = 1
    /\ heap[1].Virtual
    /\ heap[1].LocalePage = <<"Boston">>
    /\ \E k \in 1..Len(conDict) : conDict[k].key = <<"A">>

\* C26: after Append of a list of instances, every element of the list is
\* stored, exactly once: the registry holds one instance equal to it
C26_AppendsWholeList ==
    (lastOp.op = "Append" /\ pc = "running")
    => \A k \in 1..Len(lastOp.arg) :
          Cardinality({m \in 1..Len(DictObjects(conDict)) :
                          InstanceEq(heap[DictObjects(conDict)[m]], lastOp.arg[k])}) = 1

\* C27: after the virtual scan of a row, every cell that held a parenthesized
\* virtual/online annotation is in the row without it, every other cell is
\* unchanged, and the row's virtual flag is true exactly when some cell held
\* an annotation
C27_AnnotationRemoved ==
    LET info == LastInfo
    IN  info.outcome \notin {"none", "skipped"}
        => /\ \A idx \in 1..Len(info.row) :
                info.rowAfter[idx] = IF ScanForVirtual(info.row[idx]).found
                                     THEN ScanForVirtual(info.row[idx]).text
                                     ELSE info.row[idx]
           /\ info.virtual = (\E idx \in 1..Len(info.row) :
                                 RemoveAnnotations(info.row[idx]) # info.row[idx])

\* the instances whose presence C28 probes: the stored ones, the ones of the
\* latest Append, and one convention with each location and flag
C28_Probes ==
    {heap[id] : id \in DOMAIN heap}
    \cup {lastOp.arg[k] : k \in 1..Len(lastOp.arg)}
    \cup {l[1] : l \in StoredLists}

\* C28: after any sequence of Append calls the duplicate-detection set and
\* the dictionary agree: they hold the same objects, an instance tests as
\* present in the set exactly when the scan of the dictionary finds an equal
\* instance, and so hits[0] has not failed
C28_SetAgreesWithDict ==
    /\ pc # "crashed"
    /\ setOfCIIs = {DictObjects(conDict)[m] : m \in 1..Len(DictObjects(conDict))}
    /\ \A cii \in C28_Probes :
          SetContains(Registry, cii) <=> (Hits(Registry, cii) # << >>)

\* C28, its case: Append took the duplicate branch for an instance that has
\* a location, and its scan of the dictionary found the stored instance
C28_Witness ==
    /\ lastOp.op = "Append"
    /\ nCalls = 2
    /\ Len(lastOp.arg) = 1
    /\ ~LocaleIsEmpty(lastOp.arg[1].LocalePage)
    /\ Len(heap) = 1
    /\ SetContains(Registry, lastOp.arg[1])
    /\ Hits(Registry, lastOp.arg[1]) = <<1>>
    /\ LogCount(log, "AppendCon: existing", TRUE) = 1

\* C29: the lookup registry[name] of a name that has no stored instances
\* returns the empty list and leaves the registry as it was: the same keys,
\* the same stored instances, the same answer to every "name in registry"
C29_LookupLeavesRegistry ==
    [][(/\ nCalls' = nCalls + 1
        /\ lastOp'.op = "getitem"
        /\ Lookup(Registry, lastOp'.key) = << >>)
       => (/\ heap' = heap
           /\ setOfCIIs' = setOfCIIs
           /\ {conDict'[k].key : k \in 1..Len(conDict')}
                = {conDict[k].key : k \in 1..Len(conDict)}
           /\ \A name \in LookupKeys :
                (DictIndex(conDict', name) # 0) = ConventionsContains(Registry, name))]_vars

\* C30: the name entries the row's cases pair with dates are the entries the
\* name parser returned, with the same Link, Text and Cancelled, so the i-th
\* instance of an equal-count row carries the Link parsed for the i-th name
C30_EntriesAsParsed ==
    LET info == LastInfo
    IN  info.outcome \in {"no names", "equal", "one name", "not handled"}
        => /\ Len(info.names) = Len(info.parsed)
           /\ \A i \in 1..Len(info.parsed) :
                /\ info.names[i].Link = info.parsed[i].Link
                /\ info.names[i].Text = info.parsed[i].Text
                /\ info.names[i].Cancelled = info.parsed[i].Cancelled
           /\ info.outcome = "equal"
                => \A i \in 1..Len(info.built) :
                      info.built[i].CIL[1].Link = info.parsed[i].Link

====
